---- MODULE Spec2Model ----
(***************************************************************************)
(* korin regex engine: the NFA state graph (Re::Automaton), its builder    *)
(* (Re::AutomatonBuilder), the epsilon optimizer (Re::AutomatonOptimizer)  *)
(* and the facade (Re::Regex), as a state machine.                         *)
(*                                                                         *)
(* State handles are naturals: a StateT* is the index of the state in the  *)
(* order of creation, NULL is the null pointer.  The per-state lists       *)
(* nextStates / prevStates are sequences (insertion order, duplicates      *)
(* kept).                                                                  *)
(***************************************************************************)
EXTENDS Naturals, Integers, Sequences, FiniteSets, TLC

VARIABLES
    kinds,            \* kinds[s]: the tagged variant of state s
    nextStates,       \* nextStates[s]: outgoing transitions of s
    prevStates,       \* prevStates[s]: incoming transitions (back-edges) of s
    allocatedStates,  \* Automaton::allocatedStates
    currentState,     \* AutomatonBuilder::currentState
    groupStart,       \* AutomatonBuilder::groupStart[maxNumGroups]
    groupEnd,         \* AutomatonBuilder::groupEnd[maxNumGroups]
    currentGroup,     \* AutomatonBuilder::currentGroup
    undefined,        \* the program has run into undefined behaviour
    diverged,         \* a builder call has not returned (unbounded loop)
    error,            \* NoError, or the failure that ended the program
    optimized,        \* removeEpsilons() has run
    calls,            \* history: the builder calls issued so far, as tokens
    pattern,          \* the pattern handed to Regex::compile, or NoPattern
    input,            \* the input of the last acceptString, or NoInput
    isAccepted,       \* the verdict of the last acceptString
    executors,        \* executors[i]: the executor i a client holds, its last
                      \* step() result and the isAccepted it wrote
    nodes,            \* nodes[n]: the fields of the BinaryNode n, in the order of
                      \* construction
    removed           \* NoRemoval, or the call of remove(): the node it was
                      \* called on, the node it returned, and the nodes of
                      \* the tree and the children of the node before it

vars == <<kinds, nextStates, prevStates, allocatedStates, currentState,
          groupStart, groupEnd, currentGroup, undefined, diverged, error,
          optimized, calls, pattern, input, isAccepted, executors,
          nodes, removed>>

-----------------------------------------------------------------------------
(* Bounds of the model *)

\* builder calls a client issues on one automaton
MaxCalls == 6
\* length of a pattern handed to Regex::compile
MaxPatternLen == 5
\* length of an input handed to acceptString
MaxInputLen == 4
\* iterations of the loop of cloneCurrentGroup after which the call is taken
\* not to return
MaxCloneVisits == 40
\* pushRepeat calls a client issues on one automaton, and their arguments
MaxRepeatCalls == 1
\* calls a client issues before a pushRepeat, the pushRepeat included
MaxRepeatAt == 5
MaxMinRepeats == 2
MaxMaxRepeats == 2
\* the states an unassigned pointer is drawn from: NULL and the first
\* MaxStale states
MaxStale == 2
\* length of a pattern and of an input matched with executors
MaxExecPatternLen == 2
MaxExecInputLen == 2
\* beginGroup calls a client nests on one automaton
MaxNestCalls == 130
\* groups a client opens around its macros, and macros it nests
MaxOuterGroups == 2
MaxMacros == 65
\* nodes a client constructs for one tree, the values it puts in them, and
\* the calls of repairRemoved after which remove() is taken not to return
MaxNodes == 7
MaxValue == 3
MaxRepairs == 12

-----------------------------------------------------------------------------
(* Program constants *)

NULL == 0
startState == 1
acceptedState == 2
maxNumGroups == 127

\* the alphabet of the inputs
Alphabet == {"a", "b"}

\* the zero symbol of the alphabet, and the decimal digits
ZeroSymbol == "NUL"
Digits == {"0", "1", "2", "3", "4", "5", "6", "7", "8", "9"}

Epsilon == [type |-> "Epsilon", symbol |-> ""]
AnySymbol == [type |-> "Any", symbol |-> ""]
Symbol(c) == [type |-> "Symbol", symbol |-> c]

\* the failures that end the program: a CHECK that does not hold
NoError == "none"
CheckFailed == "CHECK"

\* the errors of the engine's error model; no statement of the builder or of
\* Regex::compile raises them
PatternSyntaxError == "PatternSyntaxError"
BuilderCapacityError == "BuilderCapacityError"

NoPattern == <<"none">>
NoInput == <<"none">>

RECURSIVE SeqsUpTo(_, _)
SeqsUpTo(S, n) ==
    IF n = 0 THEN {<<>>}
    ELSE LET shorter == SeqsUpTo(S, n - 1)
         IN shorter \cup {Append(s, c) : s \in {t \in shorter : Len(t) = n - 1}, c \in S}

\* the two inputs of the documentation example of Automaton
DocAccepted == <<"a", "b", "b", "a", "b", "b", "a">>
DocRejected == <<"a", "b", "b", "a", "c", "b", "a">>

Inputs == SeqsUpTo(Alphabet, MaxInputLen) \cup {DocAccepted, DocRejected}

-----------------------------------------------------------------------------
(* The automaton and its builder as one record, so that the operations     *)
(* compose the way the C++ calls do.                                       *)

Cur ==
    [kinds |-> kinds, nextStates |-> nextStates, prevStates |-> prevStates,
     allocatedStates |-> allocatedStates, currentState |-> currentState,
     groupStart |-> groupStart, groupEnd |-> groupEnd,
     currentGroup |-> currentGroup, undefined |-> undefined,
     diverged |-> diverged, error |-> error]

Set(m) ==
    /\ kinds' = m.kinds
    /\ nextStates' = m.nextStates
    /\ prevStates' = m.prevStates
    /\ allocatedStates' = m.allocatedStates
    /\ currentState' = m.currentState
    /\ groupStart' = m.groupStart
    /\ groupEnd' = m.groupEnd
    /\ currentGroup' = m.currentGroup
    /\ undefined' = m.undefined
    /\ diverged' = m.diverged
    /\ error' = m.error

\* mutant of EmptyGraph: the start and accepted states are created with
\* Automaton::pushState, which lists them in allocatedStates
EmptyGraphListed ==
    [kinds |-> <<Epsilon, Epsilon>>,
     nextStates |-> <<<<>>, <<>>>>,
     prevStates |-> <<<<>>, <<>>>>,
     allocatedStates |-> <<startState, acceptedState>>]

\* Automaton::Automaton(): the start and accepted states are created with
\* createState, so they are not listed in allocatedStates.
EmptyGraph ==
    [kinds |-> <<Epsilon, Epsilon>>,
     nextStates |-> <<<<>>, <<>>>>,
     prevStates |-> <<<<>>, <<>>>>,
     allocatedStates |-> <<>>]

\* AutomatonBuilder::AutomatonBuilder(automaton): the aggregate initialisers
\* groupStart{start} and groupEnd{accepted} set element 0, the other elements
\* are value-initialised (null).
NewAutomaton ==
    [kinds |-> EmptyGraph.kinds,
     nextStates |-> EmptyGraph.nextStates,
     prevStates |-> EmptyGraph.prevStates,
     allocatedStates |-> EmptyGraph.allocatedStates,
     currentState |-> startState,
     groupStart |-> [i \in 0..(maxNumGroups - 1) |-> IF i = 0 THEN startState ELSE NULL],
     groupEnd |-> [i \in 0..(maxNumGroups - 1) |-> IF i = 0 THEN acceptedState ELSE NULL],
     currentGroup |-> 1,
     undefined |-> FALSE,
     diverged |-> FALSE,
     error |-> NoError]

\* mutant of createState: the state is created but not listed as allocated
createStateUnlisted(m, kind) ==
    [m EXCEPT !.kinds = Append(@, kind),
              !.nextStates = Append(@, <<>>),
              !.prevStates = Append(@, <<>>)]

\* Automaton::pushState<StateAnyT>: create a state, list it as allocated.
\* The handle of the created state is lastState of the result.
createState(m, kind) ==
    [m EXCEPT !.kinds = Append(@, kind),
              !.nextStates = Append(@, <<>>),
              !.prevStates = Append(@, <<>>),
              !.allocatedStates = Append(@, Len(m.kinds) + 1)]

lastState(m) == Len(m.kinds)

\* mutant of addNextState: the edge is appended without its back-edge
addNextStateOneWay(m, from, to) ==
    IF m.undefined THEN m
    ELSE IF from = NULL \/ to = NULL THEN [m EXCEPT !.undefined = TRUE]
    ELSE [m EXCEPT !.nextStates[from] = Append(@, to)]

\* StateBase::addNextState(to) called on `from`: appends the edge and its
\* back-edge.  Called through a null pointer, or with one, it is undefined.
addNextState(m, from, to) ==
    IF m.undefined THEN m
    ELSE IF from = NULL \/ to = NULL THEN [m EXCEPT !.undefined = TRUE]
    ELSE [m EXCEPT !.nextStates[from] = Append(@, to),
                   !.prevStates[to] = Append(@, from)]

\* an index into groupStart / groupEnd outside the arrays is undefined
InArray(i) == i >= 0 /\ i < maxNumGroups

\* Automaton::~Automaton: the states handed to destroyState, in order: the
\* allocated states, then the start and accepted states
destroyedStates(m) == m.allocatedStates \o <<startState, acceptedState>>

-----------------------------------------------------------------------------
(* AutomatonBuilder *)

\* mutant of pushState: the current state stays on the prepended epsilon
pushStateNoAdvance(m, kind) ==
    LET m1 == createState(m, Epsilon)
        epsilon == lastState(m1)
        m2 == createState(m1, kind)
        state == lastState(m2)
        m3 == addNextState(addNextState(m2, m2.currentState, epsilon), epsilon, state)
    IN  IF ~InArray(m.currentGroup) THEN [m3 EXCEPT !.undefined = TRUE]
        ELSE [m3 EXCEPT !.currentState = epsilon,
                        !.groupStart[m.currentGroup] = epsilon,
                        !.groupEnd[m.currentGroup] = state]

\* mutant of pushState: no epsilon of its own opens the temporary group, which
\* starts at the state that was current
pushStateWideGroup(m, kind) ==
    LET m1 == createState(m, Epsilon)
        epsilon == lastState(m1)
        m2 == createState(m1, kind)
        state == lastState(m2)
        m3 == addNextState(addNextState(m2, m2.currentState, epsilon), epsilon, state)
    IN  IF ~InArray(m.currentGroup) THEN [m3 EXCEPT !.undefined = TRUE]
        ELSE [m3 EXCEPT !.currentState = state,
                        !.groupStart[m.currentGroup] = m.currentState,
                        !.groupEnd[m.currentGroup] = state]

pushState(m, kind) ==
    LET m1 == createState(m, Epsilon)
        epsilon == lastState(m1)
        m2 == createState(m1, kind)
        state == lastState(m2)
        m3 == addNextState(addNextState(m2, m2.currentState, epsilon), epsilon, state)
    IN  IF ~InArray(m.currentGroup) THEN [m3 EXCEPT !.undefined = TRUE]
        ELSE [m3 EXCEPT !.currentState = state,
                        !.groupStart[m.currentGroup] = epsilon,
                        !.groupEnd[m.currentGroup] = state]

beginGroup(m) ==
    LET m1 == createState(m, Epsilon)
        start == lastState(m1)
        m2 == createState(m1, Epsilon)
        end == lastState(m2)
        m3 == [addNextState(m2, m2.currentState, start) EXCEPT !.currentState = start]
    IN  IF m.currentGroup < maxNumGroups - 1
        THEN IF ~InArray(m.currentGroup) THEN [m3 EXCEPT !.undefined = TRUE]
             ELSE [m3 EXCEPT !.groupStart[m.currentGroup] = start,
                             !.groupEnd[m.currentGroup] = end,
                             !.currentGroup = m.currentGroup + 1]
        ELSE m3

\* mutant of endGroup: the group is closed on the end state of the frame at
\* the group index, the one of the last atom, not on the frame below it
endGroupLastAtom(m) ==
    IF m.currentGroup > 0
    THEN IF ~InArray(m.currentGroup) THEN [m EXCEPT !.undefined = TRUE]
         ELSE LET end == m.groupEnd[m.currentGroup]
              IN  [addNextState(m, m.currentState, end)
                      EXCEPT !.currentState = end,
                             !.currentGroup = m.currentGroup - 1]
    ELSE m

endGroup(m) ==
    IF m.currentGroup > 0
    THEN IF ~InArray(m.currentGroup - 1) THEN [m EXCEPT !.undefined = TRUE]
         ELSE LET end == m.groupEnd[m.currentGroup - 1]
              IN  [addNextState(m, m.currentState, end)
                      EXCEPT !.currentState = end,
                             !.currentGroup = m.currentGroup - 1]
    ELSE m

\* mutant of pushBranch: the current state is not reset to the start of the
\* group
pushBranchNoReset(m) ==
    IF ~InArray(m.currentGroup - 1) THEN [m EXCEPT !.undefined = TRUE]
    ELSE addNextState(m, m.currentState, m.groupEnd[m.currentGroup - 1])

\* mutant of pushBranch: the alternative is linked to and restarted from the
\* frame at the group index, the one of the last atom, not the group's frame
pushBranchLastAtom(m) ==
    IF ~InArray(m.currentGroup) THEN [m EXCEPT !.undefined = TRUE]
    ELSE [addNextState(m, m.currentState, m.groupEnd[m.currentGroup])
             EXCEPT !.currentState = m.groupStart[m.currentGroup]]

pushBranch(m) ==
    IF ~InArray(m.currentGroup - 1) THEN [m EXCEPT !.undefined = TRUE]
    ELSE [addNextState(m, m.currentState, m.groupEnd[m.currentGroup - 1])
             EXCEPT !.currentState = m.groupStart[m.currentGroup - 1]]

\* mutant of pushSkip: the shortcut leaves from the end of the group, not from
\* its start
pushSkipFromEnd(m) ==
    LET m1 == createState(m, Epsilon)
        epsilon == lastState(m1)
        m2 == [addNextState(m1, m1.currentState, epsilon) EXCEPT !.currentState = epsilon]
    IN  IF ~InArray(m.currentGroup) THEN [m2 EXCEPT !.undefined = TRUE]
        ELSE addNextState(m2, m2.groupEnd[m.currentGroup], epsilon)

pushSkip(m) ==
    LET m1 == createState(m, Epsilon)
        epsilon == lastState(m1)
        m2 == [addNextState(m1, m1.currentState, epsilon) EXCEPT !.currentState = epsilon]
    IN  IF ~InArray(m.currentGroup) THEN [m2 EXCEPT !.undefined = TRUE]
        ELSE addNextState(m2, m2.groupStart[m.currentGroup], epsilon)

\* mutant of pushJump: the edge goes from the start of the group to its end
pushJumpReversed(m) ==
    IF ~InArray(m.currentGroup) THEN [m EXCEPT !.undefined = TRUE]
    ELSE addNextState(m, m.groupStart[m.currentGroup], m.groupEnd[m.currentGroup])

pushJump(m) ==
    IF ~InArray(m.currentGroup) THEN [m EXCEPT !.undefined = TRUE]
    ELSE addNextState(m, m.groupEnd[m.currentGroup], m.groupStart[m.currentGroup])

\* StateBase::cloneState(automaton) called on `state`: a new allocated state
\* of the same kind, with no transitions.  Called through a null pointer it
\* is undefined.
cloneState(m, state) ==
    IF state = NULL THEN [m EXCEPT !.undefined = TRUE]
    ELSE createState(m, m.kinds[state])

\* the visits pushed for the outgoing transitions of currState, in order
nextVisits(m, currState, clone) ==
    [i \in 1..Len(m.nextStates[currState]) |-> <<m.nextStates[currState][i], clone>>]

\* the do-while loop of cloneCurrentGroup, from the visit currVisit on.
\* visitedStates maps a visited state to its clone; visitQueue is popped from
\* the back; `visits` counts the iterations left before the loop is taken not
\* to end.  The result holds the builder and the map of the visited states.
RECURSIVE cloneVisit(_, _, _, _, _, _)
cloneVisit(m, endState, visitQueue, currVisit, visitedStates, visits) ==
    LET currState == currVisit[1]
        prevState == currVisit[2]
        seen == currState \in DOMAIN visitedStates
        \* find() stores the clone found into currentState
        found == [m EXCEPT !.currentState = visitedStates[currState]]
        cloned == cloneState(m, currState)
        clone == lastState(cloned)
        m1 == IF seen
              THEN addNextState(found, prevState, found.currentState)
              ELSE addNextState([cloned EXCEPT !.currentState = clone], prevState, clone)
        queue1 == IF seen \/ m1.undefined \/ currState = endState THEN visitQueue
                  ELSE visitQueue \o nextVisits(m1, currState, clone)
        visited1 == IF seen THEN visitedStates
                    ELSE [s \in DOMAIN visitedStates \cup {currState} |->
                            IF s = currState THEN clone ELSE visitedStates[s]]
    IN  IF visits = 0 THEN [m |-> [m EXCEPT !.diverged = TRUE], visitedStates |-> visitedStates]
        ELSE IF m1.undefined \/ queue1 = <<>>
        THEN [m |-> m1, visitedStates |-> visited1]
        ELSE cloneVisit(m1, endState, SubSeq(queue1, 1, Len(queue1) - 1),
                        queue1[Len(queue1)], visited1, visits - 1)

\* cloneCurrentGroup with the map of the visited states it leaves
cloneCurrentGroupVisited(m) ==
    IF ~InArray(m.currentGroup)
    THEN [m |-> [m EXCEPT !.undefined = TRUE], visitedStates |-> <<>>]
    ELSE cloneVisit(m, m.groupEnd[m.currentGroup], <<>>,
                    <<m.groupStart[m.currentGroup], m.currentState>>,
                    <<>>, MaxCloneVisits)

cloneCurrentGroup(m) == cloneCurrentGroupVisited(m).m

\* the epsilon state that the first loop of pushRepeat puts before a clone:
\* it becomes the current state
repeatEpsilon(m) ==
    LET m1 == createState(m, Epsilon)
        epsilon == lastState(m1)
    IN  [addNextState(m1, m1.currentState, epsilon) EXCEPT !.currentState = epsilon]

\* the first loop of pushRepeat, from repeatIdx on: the clones of the minimum
\* number of repetitions.  The result holds the builder and prevState.
RECURSIVE repeatMin(_, _, _, _)
repeatMin(m, repeatIdx, minRepeats, prevState) ==
    IF repeatIdx >= minRepeats \/ m.undefined \/ m.diverged
    THEN [m |-> m, prevState |-> prevState]
    ELSE LET m1 == repeatEpsilon(m)
         IN  repeatMin(cloneCurrentGroup(m1), repeatIdx + 1, minRepeats, m1.currentState)

\* the second loop of pushRepeat, from repeatIdx on: the clones that can be
\* skipped
RECURSIVE repeatMax(_, _, _, _)
repeatMax(m, repeatIdx, maxRepeats, epsilon) ==
    IF repeatIdx >= maxRepeats \/ m.undefined \/ m.diverged THEN m
    ELSE repeatMax(cloneCurrentGroup(addNextState(m, m.currentState, epsilon)),
                   repeatIdx + 1, maxRepeats, epsilon)

\* pushRepeat(minRepeats, maxRepeats).  `stale` is the value the local
\* prevState holds when the first loop has not assigned it; checkOn tells
\* whether the build compiles CHECK into a test that ends the program.
pushRepeat(m, minRepeats, maxRepeats, stale, checkOn) ==
    LET m1 == createState(m, Epsilon)
        epsilon == lastState(m1)
        r == repeatMin(m1, 1, minRepeats, stale)
        m2 == r.m
        m3 == IF maxRepeats = 0
              THEN addNextState(m2, m2.currentState, r.prevState)
              ELSE IF checkOn /\ ~(minRepeats <= maxRepeats)
              THEN [m2 EXCEPT !.error = CheckFailed]
              ELSE repeatMax(m2, minRepeats, maxRepeats, epsilon)
        m4 == addNextState(m3, m3.currentState, epsilon)
    IN  IF m3.undefined \/ m3.diverged \/ m3.error # NoError THEN m3
        ELSE IF ~InArray(m.currentGroup) THEN [m4 EXCEPT !.undefined = TRUE]
        ELSE [m4 EXCEPT !.currentState = epsilon,
                        !.groupEnd[m.currentGroup] = epsilon]

\* a StateMacro: its sub-automaton runs from startState to acceptedState
MacroState(start, accepted) ==
    [type |-> "Macro", symbol |-> "", startState |-> start, acceptedState |-> accepted]

\* the value an int8 holds after it has been assigned n (two's complement)
Int8(n) == ((n + 128) % 256) - 128

\* beginMacro<MacroAnyT>: currentGroup += 2 is not checked against the size
\* of the arrays, and currentGroup is an int8
beginMacro(m) ==
    LET m1 == createState(m, Epsilon)
        start == lastState(m1)
        m2 == createState(m1, Epsilon)
        accepted == lastState(m2)
        m3 == pushState(m2, MacroState(start, accepted))
        g == Int8(m.currentGroup + 2)
    IN  IF m3.undefined THEN m3
        ELSE IF ~InArray(g - 1) THEN [m3 EXCEPT !.currentGroup = g, !.undefined = TRUE]
        ELSE [m3 EXCEPT !.currentGroup = g,
                        !.groupStart[g - 1] = start,
                        !.groupEnd[g - 1] = accepted,
                        !.currentState = start]

\* endMacro: endGroup, then the macro frame is popped and the macro state is
\* the current state
endMacro(m) ==
    LET m1 == endGroup(m)
        g == Int8(m1.currentGroup - 1)
    IN  IF m1.undefined THEN m1
        ELSE IF ~InArray(g) THEN [m1 EXCEPT !.currentGroup = g, !.undefined = TRUE]
        ELSE [m1 EXCEPT !.currentGroup = g, !.currentState = m1.groupEnd[g]]

-----------------------------------------------------------------------------
(* AutomatonOptimizer *)

Range(seq) == {seq[i] : i \in 1..Len(seq)}

RECURSIVE RemoveOne(_, _)
RemoveOne(seq, x) ==
    IF seq = <<>> THEN <<>>
    ELSE IF Head(seq) = x THEN Tail(seq)
    ELSE <<Head(seq)>> \o RemoveOne(Tail(seq), x)

ReplaceAll(seq, x, y) == [i \in 1..Len(seq) |-> IF seq[i] = x THEN y ELSE seq[i]]

\* StateEpsilon::mergePrevState: the state has one incoming transition; its
\* predecessor takes over its outgoing transitions and the state is unlinked.
mergePrevState(m, e) ==
    LET pred == m.prevStates[e][1]
    IN  IF pred = e THEN m
        ELSE [m EXCEPT
                !.nextStates = [s \in DOMAIN @ |->
                    IF s = e THEN <<>>
                    ELSE IF s = pred THEN RemoveOne(@[s], e) \o m.nextStates[e]
                    ELSE @[s]],
                !.prevStates = [s \in DOMAIN @ |->
                    IF s = e THEN <<>> ELSE ReplaceAll(@[s], e, pred)]]

\* StateEpsilon::mergeNextState: the state has one outgoing transition; its
\* successor takes over its incoming transitions and the state is unlinked.
mergeNextState(m, e) ==
    LET succ == m.nextStates[e][1]
    IN  IF succ = e THEN m
        ELSE [m EXCEPT
                !.prevStates = [s \in DOMAIN @ |->
                    IF s = e THEN <<>>
                    ELSE IF s = succ THEN RemoveOne(@[s], e) \o m.prevStates[e]
                    ELSE @[s]],
                !.nextStates = [s \in DOMAIN @ |->
                    IF s = e THEN <<>> ELSE ReplaceAll(@[s], e, succ)]]

\* mutant of removeEpsilon: an epsilon state with several incoming
\* transitions is merged into the first of its predecessors
removeEpsilonAnyPrev(m, state) ==
    IF m.kinds[state].type = "Epsilon"
    THEN IF Len(m.prevStates[state]) > 0 /\ Len(m.nextStates[state]) > 0
         THEN mergePrevState(m, state)
         ELSE IF Len(m.nextStates[state]) = 1 /\ Len(m.prevStates[state]) > 0
         THEN mergeNextState(m, state)
         ELSE m
    ELSE m

\* the body of the loop of removeEpsilons for the state `state`
removeEpsilon(m, state) ==
    IF m.kinds[state].type = "Epsilon"
    THEN IF Len(m.prevStates[state]) = 1 /\ Len(m.nextStates[state]) > 0
         THEN mergePrevState(m, state)
         ELSE IF Len(m.nextStates[state]) = 1 /\ Len(m.prevStates[state]) > 0
         THEN mergeNextState(m, state)
         ELSE m
    ELSE m

RECURSIVE removeEpsilonsFrom(_, _)
removeEpsilonsFrom(m, i) ==
    IF i > Len(m.allocatedStates) THEN m
    ELSE removeEpsilonsFrom(removeEpsilon(m, m.allocatedStates[i]), i + 1)

removeEpsilons(m) == removeEpsilonsFrom(m, 1)

-----------------------------------------------------------------------------
(* Executor *)

\* the kinds that consume one symbol of the input
Consumes(kind) == kind.type \in {"Symbol", "Any"}

\* a Symbol state matches its own symbol, an Any state every symbol but the
\* zero symbol
Matches(kind, c) ==
    \/ kind.type = "Symbol" /\ kind.symbol = c
    \/ kind.type = "Any" /\ c # ZeroSymbol

RECURSIVE closure(_, _)
closure(m, F) ==
    LET more == F \cup UNION {Range(m.nextStates[u]) : u \in {v \in F : ~Consumes(m.kinds[v])}}
    IN  IF more = F THEN F ELSE closure(m, more)

\* Automaton::createExecutor
createExecutor(m, in) ==
    [frontier |-> closure(m, {startState}), cursor |-> 1, input |-> in]

\* mutant of step: a call that matches consumes two symbols of the input
stepTwoSymbols(m, ex) ==
    IF ex.cursor > Len(ex.input)
    THEN [done |-> TRUE, isAccepted |-> acceptedState \in ex.frontier, ex |-> ex]
    ELSE LET c == ex.input[ex.cursor]
             moved == UNION {Range(m.nextStates[u]) :
                             u \in {v \in ex.frontier :
                                    Consumes(m.kinds[v]) /\ Matches(m.kinds[v], c)}}
             F == closure(m, moved)
             ex1 == [ex EXCEPT !.cursor = ex.cursor + 2, !.frontier = F]
         IN  IF F = {}
             THEN [done |-> TRUE, isAccepted |-> FALSE, ex |-> ex1]
             ELSE [done |-> FALSE, isAccepted |-> FALSE, ex |-> ex1]

\* Executor::step(isAccepted): TRUE in `done` when the verdict is final
step(m, ex) ==
    IF ex.cursor > Len(ex.input)
    THEN [done |-> TRUE, isAccepted |-> acceptedState \in ex.frontier, ex |-> ex]
    ELSE LET c == ex.input[ex.cursor]
             moved == UNION {Range(m.nextStates[u]) :
                             u \in {v \in ex.frontier :
                                    Consumes(m.kinds[v]) /\ Matches(m.kinds[v], c)}}
             F == closure(m, moved)
             ex1 == [ex EXCEPT !.cursor = ex.cursor + 1, !.frontier = F]
         IN  IF F = {}
             THEN [done |-> TRUE, isAccepted |-> FALSE, ex |-> ex1]
             ELSE [done |-> FALSE, isAccepted |-> FALSE, ex |-> ex1]

RECURSIVE stepUntilDone(_, _)
stepUntilDone(m, ex) ==
    LET r == step(m, ex)
    IN  IF r.done THEN r.isAccepted ELSE stepUntilDone(m, r.ex)

\* mutant of acceptString: one call of step instead of the loop
acceptStringOnce(m, in) == step(m, createExecutor(m, in)).isAccepted

\* Automaton::acceptString
acceptString(m, in) == stepUntilDone(m, createExecutor(m, in))

\* the executors a client creates on one automaton
Executors == {1, 2}

\* no executor has been created
NoExecutor ==
    [ex |-> [frontier |-> {}, cursor |-> 0, input |-> NoInput],
     done |-> FALSE, isAccepted |-> FALSE]

-----------------------------------------------------------------------------
(* Builder calls as values, for the history and for Regex::compile *)

PushState(kind) == [op |-> "pushState", kind |-> kind]
BeginGroup == [op |-> "beginGroup", kind |-> Epsilon]
EndGroup == [op |-> "endGroup", kind |-> Epsilon]
PushBranch == [op |-> "pushBranch", kind |-> Epsilon]
PushSkip == [op |-> "pushSkip", kind |-> Epsilon]
PushJump == [op |-> "pushJump", kind |-> Epsilon]
PushRepeat(minRepeats, maxRepeats, stale, checkOn) ==
    [op |-> "pushRepeat", kind |-> Epsilon, minRepeats |-> minRepeats,
     maxRepeats |-> maxRepeats, stale |-> stale, checkOn |-> checkOn]

\* the builder is still running: no call has ended the program
Running(m) == ~m.undefined /\ ~m.diverged /\ m.error = NoError

call(m, c) ==
    IF ~Running(m) THEN m
    ELSE CASE c.op = "pushState" -> pushState(m, c.kind)
           [] c.op = "beginGroup" -> beginGroup(m)
           [] c.op = "endGroup" -> endGroup(m)
           [] c.op = "pushBranch" -> pushBranch(m)
           [] c.op = "pushSkip" -> pushSkip(m)
           [] c.op = "pushJump" -> pushJump(m)
           [] c.op = "pushRepeat" ->
                pushRepeat(m, c.minRepeats, c.maxRepeats, c.stale, c.checkOn)

RECURSIVE callAll(_, _)
callAll(m, cs) == IF cs = <<>> THEN m ELSE callAll(call(m, Head(cs)), Tail(cs))

-----------------------------------------------------------------------------
(* Regex *)

PatternChars == {"a", "b", "(", ")", "|", "+", "*"}

\* the patterns of '.' tokens, and the pattern of two digit classes of
\* TEST(regex, special_characters)
AnyPatterns == SeqsUpTo({"."}, MaxPatternLen)
DigitsPattern == <<"\\", "d", "\\", "d">>

Patterns == SeqsUpTo(PatternChars, MaxPatternLen) \cup AnyPatterns \cup {DigitsPattern}

\* the inputs handed to Regex::accept: those of acceptString, inputs of
\* digits and inputs that hold the zero symbol
RegexInputs ==
    Inputs \cup {<<"1">>, <<"1", "0">>, <<"6", "7">>, <<"1", "0", "6">>,
                 <<ZeroSymbol>>, <<"a", ZeroSymbol>>, <<ZeroSymbol, "b">>}

\* mutant of compileChar: '.' is a literal symbol
compileCharNoAny(c) ==
    CASE c = "(" -> BeginGroup
      [] c = ")" -> BeginGroup
      [] c = "|" -> PushBranch
      [] c = "+" -> PushJump
      [] OTHER -> PushState(Symbol(c))

\* the switch of Regex::compile: the builder call issued for pattern character c
compileChar(c) ==
    CASE c = "(" -> BeginGroup
      [] c = ")" -> BeginGroup
      [] c = "|" -> PushBranch
      [] c = "+" -> PushJump
      [] c = "." -> PushState(AnySymbol)
      [] OTHER -> PushState(Symbol(c))

\* the builder calls of Regex::compile(p), the closing endGroup included
compileCalls(p) == [i \in 1..Len(p) |-> compileChar(p[i])] \o <<EndGroup>>

\* Regex::compile
compile(m, p) ==
    LET built == callAll(m, compileCalls(p))
    IN  IF Running(built) THEN removeEpsilons(built) ELSE built

-----------------------------------------------------------------------------
(* BinaryNode: the nodes of a red-black tree threaded by a prev/next list *)

RED == "RED"
BLACK == "BLACK"

\* the pointers of a node that swapNodes exchanges
NodePointers == {"parent", "left", "right", "prev", "next"}

\* BinaryNode::BinaryNode(inData)
BinaryNode(inData) ==
    [parent |-> NULL, left |-> NULL, right |-> NULL, next |-> NULL,
     prev |-> NULL, data |-> inData, color |-> RED]

\* no remove() has been called
NoRemoval == [this |-> NULL, u |-> NULL, tree |-> {}, children |-> 0]

\* a heap of nodes in the middle of a call: ret is the value the call returns
Heap(ns) == [nodes |-> ns, undefined |-> FALSE, diverged |-> FALSE, ret |-> NULL]

Stopped(t) == t.undefined \/ t.diverged

\* the read n->f; the read through a null pointer is undefined and is flagged
\* by the caller with deref
get(t, n, f) == IF n = NULL THEN NULL ELSE t.nodes[n][f]

\* a read through the pointer n
deref(t, n) ==
    IF ~Stopped(t) /\ n = NULL THEN [t EXCEPT !.undefined = TRUE] ELSE t

\* the write n->f = v
put(t, n, f, v) ==
    IF Stopped(t) THEN t
    ELSE IF n = NULL THEN [t EXCEPT !.undefined = TRUE]
    ELSE [t EXCEPT !.nodes[n][f] = v]

\* CompareT()(a, b) of the three-way comparison of two values
Compare(a, b) == IF a < b THEN -1 ELSE IF a > b THEN 1 ELSE 0

\* BinaryNode::isBlack, isRed
isBlack(t, node) == node = NULL \/ t.nodes[node].color = BLACK
isRed(t, node) == node # NULL /\ t.nodes[node].color = RED

\* BinaryNode::getRoot
RECURSIVE getRoot(_, _)
getRoot(t, this) ==
    IF t.nodes[this].parent = NULL THEN this
    ELSE getRoot(t, t.nodes[this].parent)

\* BinaryNode::setLeftChild
setLeftChild(t, this, node) ==
    LET t1 == put(t, this, "left", node)
    IN  IF node # NULL THEN put(t1, node, "parent", this) ELSE t1

\* BinaryNode::setRightChild
setRightChild(t, this, node) ==
    LET t1 == put(t, this, "right", node)
    IN  IF node # NULL THEN put(t1, node, "parent", this) ELSE t1

\* BinaryNode::setPrevNode
setPrevNode(t, this, node) ==
    LET prev == get(t, this, "prev")
        t1 == IF prev # NULL THEN put(t, prev, "next", node) ELSE t
        t2 == put(t1, node, "prev", prev)
        t3 == put(t2, node, "next", this)
    IN  put(t3, this, "prev", node)

\* setNextNode with its last statement read as acting on the next the node
\* had when the call began
setNextNodeOldNext(t, this, node) ==
    LET next == get(t, this, "next")
        t1 == IF next # NULL THEN put(t, next, "prev", node) ELSE t
        t2 == put(t1, node, "next", next)
        t3 == put(t2, this, "next", node)
    IN  IF next # NULL THEN put(t3, next, "prev", this) ELSE t3

\* BinaryNode::setNextNode; its last statement, next->prev = this, reads the
\* next it has just assigned
setNextNode(t, this, node) ==
    LET next == get(t, this, "next")
        t1 == IF next # NULL THEN put(t, next, "prev", node) ELSE t
        t2 == put(t1, node, "next", next)
        t3 == put(t2, this, "next", node)
    IN  put(t3, get(t3, this, "next"), "prev", this)

\* BinaryNode::rotateLeft
rotateLeft(t, this) ==
    LET root == get(t, this, "parent")
        pivot == get(t, this, "right")
        t0 == deref(deref(t, this), pivot)
        t1 == setRightChild(t0, this, get(t0, pivot, "left"))
        t2 == setLeftChild(t1, pivot, this)
    IN  IF Stopped(t2) THEN t2
        ELSE IF root # NULL
        THEN IF get(t2, root, "left") = this
             THEN setLeftChild(t2, root, pivot)
             ELSE setRightChild(t2, root, pivot)
        ELSE put(t2, pivot, "parent", NULL)

\* BinaryNode::rotateRight
rotateRight(t, this) ==
    LET root == get(t, this, "parent")
        pivot == get(t, this, "left")
        t0 == deref(deref(t, this), pivot)
        t1 == setLeftChild(t0, this, get(t0, pivot, "right"))
        t2 == setRightChild(t1, pivot, this)
    IN  IF Stopped(t2) THEN t2
        ELSE IF root # NULL
        THEN IF get(t2, root, "right") = this
             THEN setRightChild(t2, root, pivot)
             ELSE setLeftChild(t2, root, pivot)
        ELSE put(t2, pivot, "parent", NULL)

\* BinaryNode::swapNodes: the two nodes exchange their own five pointers
swapNodes(t, a, b) ==
    LET t0 == deref(deref(t, a), b)
    IN  IF Stopped(t0) THEN t0
        ELSE [t0 EXCEPT !.nodes =
                [n \in DOMAIN t.nodes |->
                    IF n = a
                    THEN [f \in DOMAIN t.nodes[a] |->
                            IF f \in NodePointers THEN t.nodes[b][f]
                            ELSE t.nodes[a][f]]
                    ELSE IF n = b
                    THEN [f \in DOMAIN t.nodes[b] |->
                            IF f \in NodePointers THEN t.nodes[a][f]
                            ELSE t.nodes[b][f]]
                    ELSE t.nodes[n]]]

\* BinaryNode::repairInserted
RECURSIVE repairInserted(_, _)
repairInserted(t, node) ==
    LET parent == get(t, node, "parent")
        grand == get(t, parent, "parent")
        uncle == IF grand # NULL
                 THEN IF get(t, grand, "left") = parent
                      THEN get(t, grand, "right")
                      ELSE get(t, grand, "left")
                 ELSE NULL
    IN  IF Stopped(t) THEN t
        ELSE IF parent = NULL THEN put(t, node, "color", BLACK)
        ELSE IF isBlack(t, parent) THEN put(t, node, "color", RED)
        ELSE IF isRed(t, uncle)
        THEN repairInserted(
                 put(put(put(t, uncle, "color", BLACK),
                         parent, "color", BLACK), grand, "color", RED),
                 grand)
        ELSE IF grand = NULL THEN deref(t, grand)
        ELSE IF get(t, grand, "left") = parent
        THEN IF get(t, parent, "right") = node
             THEN put(put(rotateRight(rotateLeft(t, parent), grand),
                          node, "color", BLACK), grand, "color", RED)
             ELSE put(put(rotateRight(t, grand),
                          parent, "color", BLACK), grand, "color", RED)
        ELSE IF get(t, parent, "left") = node
             THEN put(put(rotateLeft(rotateRight(t, parent), grand),
                          node, "color", BLACK), grand, "color", RED)
             ELSE put(put(rotateLeft(t, grand),
                          parent, "color", BLACK), grand, "color", RED)

\* BinaryNode::insert: a value equal to the value of a node goes to its right
RECURSIVE insert(_, _, _)
insert(t, this, node) ==
    LET cmp == Compare(t.nodes[node].data, t.nodes[this].data)
    IN  IF cmp < 0
        THEN IF t.nodes[this].left # NULL
             THEN insert(t, t.nodes[this].left, node)
             ELSE [repairInserted(
                       setLeftChild(setPrevNode(t, this, node), this, node),
                       node) EXCEPT !.ret = node]
        ELSE IF t.nodes[this].right # NULL
             THEN insert(t, t.nodes[this].right, node)
             ELSE [repairInserted(
                       setRightChild(setNextNode(t, this, node), this, node),
                       node) EXCEPT !.ret = node]

\* BinaryNode::insertUnique: a value equal to the value of a node is not
\* inserted, and that node is returned
RECURSIVE insertUnique(_, _, _)
insertUnique(t, this, node) ==
    LET cmp == Compare(t.nodes[node].data, t.nodes[this].data)
    IN  IF cmp < 0
        THEN IF t.nodes[this].left # NULL
             THEN insertUnique(t, t.nodes[this].left, node)
             ELSE [repairInserted(
                       setLeftChild(setPrevNode(t, this, node), this, node),
                       node) EXCEPT !.ret = node]
        ELSE IF cmp > 0
        THEN IF t.nodes[this].right # NULL
             THEN insertUnique(t, t.nodes[this].right, node)
             ELSE [repairInserted(
                       setRightChild(setNextNode(t, this, node), this, node),
                       node) EXCEPT !.ret = node]
        ELSE [t EXCEPT !.ret = this]

\* the rotation of a node to one side
rotate(t, this, side) ==
    IF side = "left" THEN rotateLeft(t, this) ELSE rotateRight(t, this)

RECURSIVE repairRemoved(_, _, _, _)

\* repairRemoved, Case 1: sibling is red. near is the side of the parent the
\* node hangs on, far the side of its sibling
repairCase1(t, parent, sibling, near) ==
    IF isRed(t, sibling)
    THEN rotate(put(put(t, sibling, "color", BLACK), parent, "color", RED),
                parent, near)
    ELSE t

\* repairRemoved, Case 3: sibling is black and inner child is red
repairCase3(t, sibling, near, far) ==
    IF isRed(t, t.nodes[sibling][near])
    THEN rotate(put(put(t, sibling, "color", RED),
                    t.nodes[sibling][near], "color", BLACK),
                sibling, far)
    ELSE t

\* repairRemoved, Case 4: sibling is black and outer child is red
repairCase4(t, parent, sibling, near, far) ==
    rotate(put(put(put(t, sibling, "color", get(t, parent, "color")),
                   parent, "color", BLACK),
               get(t, sibling, far), "color", BLACK),
           parent, near)

\* repairRemoved, Case 4 after Case 3 has led from the heap t2 to the heap t3:
\* where Case 3 has rotated, the sibling is updated to its parent
repairCase34(t2, t3, parent, sibling, near, far) ==
    repairCase4(t3, parent,
                IF isRed(t2, t2.nodes[sibling][near])
                THEN get(t3, sibling, "parent")
                ELSE sibling,
                near, far)

\* repairRemoved, Cases 2 to 4; the test of Case 2 reads sibling->left, and
\* only the left side tests isBlack(sibling) before
repairCase2(t, parent, sibling, near, far, ncalls) ==
    IF Stopped(t) \/ sibling = NULL THEN deref(t, sibling)
    ELSE IF /\ (near = "left" => isBlack(t, sibling))
            /\ isBlack(t, t.nodes[sibling].left)
            /\ isBlack(t, t.nodes[sibling].right)
    THEN repairRemoved(put(t, sibling, "color", RED), parent,
                       t.nodes[parent].parent, ncalls - 1)
    ELSE repairCase34(t, repairCase3(t, sibling, near, far), parent, sibling,
                      near, far)

\* repairRemoved after Case 1, which updates the sibling
repairCase12(t1, parent, near, far, ncalls) ==
    repairCase2(t1, parent, get(t1, parent, far), near, far, ncalls)

\* BinaryNode::repairRemoved; ncalls is the number of calls after which the
\* recursion is taken not to return
repairRemoved(t, node, parent, ncalls) ==
    IF Stopped(t) THEN t
    ELSE IF ncalls = 0 THEN [t EXCEPT !.diverged = TRUE]
    ELSE IF node = NULL /\ parent = NULL THEN t
    ELSE IF node # NULL /\ (t.nodes[node].color = RED \/ parent = NULL)
    THEN put(t, node, "color", BLACK)
    ELSE IF t.nodes[parent].left = node
    THEN repairCase12(repairCase1(t, parent, t.nodes[parent].right, "left"),
                      parent, "left", "right", ncalls)
    ELSE repairCase12(repairCase1(t, parent, t.nodes[parent].left, "right"),
                      parent, "right", "left", ncalls)

\* swap(color, u->color) of remove
swapColor(t, a, b) ==
    put(put(t, a, "color", get(t, b, "color")), b, "color", get(t, a, "color"))

\* remove, "Remove left or right child of successor": v, the child of u that
\* takes its place
removeChild(t, u) ==
    IF get(t, u, "left") # NULL THEN get(t, u, "left") ELSE get(t, u, "right")

\* remove, "Remove left or right child of successor": u leaves the list
removeUnlink(t, u, v) ==
    IF get(t, u, "left") # NULL
    THEN LET a == put(t, v, "next", get(t, u, "next"))
         IN  IF get(a, v, "next") # NULL
             THEN put(a, get(a, v, "next"), "prev", v)
             ELSE a
    ELSE IF get(t, u, "right") # NULL
    THEN LET a == put(t, v, "prev", get(t, u, "prev"))
         IN  IF get(a, v, "prev") # NULL
             THEN put(a, get(a, v, "prev"), "next", v)
             ELSE a
    ELSE LET a == IF get(t, u, "prev") # NULL
                  THEN put(t, get(t, u, "prev"), "next", get(t, u, "next"))
                  ELSE t
         IN  IF get(a, u, "next") # NULL
             THEN put(a, get(a, u, "next"), "prev", get(a, u, "prev"))
             ELSE a

\* remove, "Replace successor"
removeReplace(t, u, v, parent) ==
    IF parent # NULL
    THEN IF get(t, parent, "left") = u
         THEN setLeftChild(t, parent, v)
         ELSE setRightChild(t, parent, v)
    ELSE IF v # NULL THEN put(t, v, "parent", NULL)
    ELSE t

\* remove, "Repair rb structure"
removeRepair(t, u, v) ==
    IF Stopped(t) THEN t
    ELSE IF isBlack(t, u)
    THEN repairRemoved(t, v,
                       IF v # NULL THEN get(t, v, "parent")
                       ELSE get(t, u, "parent"),
                       MaxRepairs)
    ELSE t

\* remove once u has left the list: u leaves the tree, which is repaired
removeUnlinked(t, u, v) ==
    [removeRepair(removeReplace(t, u, v, get(t, u, "parent")), u, v)
        EXCEPT !.ret = u]

\* remove once u is known
removeNode(t, u) ==
    removeUnlinked(removeUnlink(t, u, removeChild(t, u)), u, removeChild(t, u))

\* BinaryNode::remove
remove(t, this) ==
    IF t.nodes[this].left # NULL /\ t.nodes[this].right # NULL
    THEN removeNode(swapColor(swapNodes(t, this, t.nodes[this].next),
                              this, t.nodes[this].next),
                    t.nodes[this].next)
    ELSE removeNode(t, this)

-----------------------------------------------------------------------------
(* The state machine *)

Init ==
    /\ kinds = NewAutomaton.kinds
    /\ nextStates = NewAutomaton.nextStates
    /\ prevStates = NewAutomaton.prevStates
    /\ allocatedStates = NewAutomaton.allocatedStates
    /\ currentState = NewAutomaton.currentState
    /\ groupStart = NewAutomaton.groupStart
    /\ groupEnd = NewAutomaton.groupEnd
    /\ currentGroup = NewAutomaton.currentGroup
    /\ undefined = NewAutomaton.undefined
    /\ diverged = NewAutomaton.diverged
    /\ error = NewAutomaton.error
    /\ optimized = FALSE
    /\ calls = <<>>
    /\ pattern = NoPattern
    /\ input = NoInput
    /\ isAccepted = FALSE
    /\ executors = [i \in Executors |-> NoExecutor]
    /\ nodes = <<>>
    /\ removed = NoRemoval

\* a client of AutomatonBuilder issues the call c
Build(c) ==
    /\ Running(Cur)
    /\ ~optimized
    /\ Len(calls) < MaxCalls
    /\ Set(call(Cur, c))
    /\ calls' = Append(calls, c)
    /\ input' = NoInput
    /\ isAccepted' = FALSE
    /\ UNCHANGED <<optimized, pattern, executors, nodes, removed>>

DoPushState == \E c \in Alphabet : Build(PushState(Symbol(c)))
DoBeginGroup == Build(BeginGroup)
DoEndGroup == Build(EndGroup)
DoPushBranch == Build(PushBranch)
DoPushSkip == Build(PushSkip)
DoPushJump == Build(PushJump)

\* the top-level group is closed: the automaton is built
Built == Running(Cur) /\ currentGroup = 0

\* AutomatonOptimizer::removeEpsilons on the built automaton
DoRemoveEpsilons ==
    /\ Built
    /\ ~optimized
    /\ Set(removeEpsilons(Cur))
    /\ optimized' = TRUE
    /\ input' = NoInput
    /\ isAccepted' = FALSE
    /\ UNCHANGED <<calls, pattern, executors, nodes, removed>>

\* Automaton::acceptString on the built automaton
DoAcceptString ==
    /\ Built
    /\ input = NoInput
    /\ \E in \in Inputs :
        /\ input' = in
        /\ isAccepted' = acceptString(Cur, in)
    /\ UNCHANGED <<kinds, nextStates, prevStates, allocatedStates, currentState,
                   groupStart, groupEnd, currentGroup, undefined, diverged,
                   error, optimized, calls, pattern, executors, nodes, removed>>

Next ==
    \/ DoPushState
    \/ DoBeginGroup
    \/ DoEndGroup
    \/ DoPushBranch
    \/ DoPushSkip
    \/ DoPushJump
    \/ DoRemoveEpsilons
    \/ DoAcceptString

Spec == Init /\ [][Next]_vars

-----------------------------------------------------------------------------
(* The client that also repeats groups *)

RepeatCalls(cs) == {i \in 1..Len(cs) : cs[i].op = "pushRepeat"}

\* pushRepeat(minRepeats, maxRepeats).  The local prevState is read without
\* having been assigned when the first loop does not run and maxRepeats is 0:
\* it then holds any pointer, NULL standing for the ones that are no state.
\* CHECK is read only when minRepeats > maxRepeats > 0.
DoPushRepeat ==
    /\ Cardinality(RepeatCalls(calls)) < MaxRepeatCalls
    /\ Len(calls) < MaxRepeatAt
    /\ \E minRepeats \in 0..MaxMinRepeats, maxRepeats \in 0..MaxMaxRepeats,
          stale \in 0..MaxStale, checkOn \in BOOLEAN :
          /\ stale = NULL \/ (minRepeats <= 1 /\ maxRepeats = 0)
          /\ checkOn \/ (maxRepeats > 0 /\ minRepeats > maxRepeats)
          /\ Build(PushRepeat(minRepeats, maxRepeats, stale, checkOn))

Repeated == RepeatCalls(calls) # {}

\* the client builds an atom or a group, repeats it, closes the open groups,
\* then optimizes and matches
NextRepeat ==
    \/ ~Repeated /\ DoPushState
    \/ ~Repeated /\ DoBeginGroup
    \/ DoEndGroup
    \/ ~Repeated /\ DoPushBranch
    \/ ~Repeated /\ DoPushSkip
    \/ ~Repeated /\ DoPushJump
    \/ DoPushRepeat
    \/ Repeated /\ DoRemoveEpsilons
    \/ Repeated /\ DoAcceptString

SpecRepeat == Init /\ [][NextRepeat]_vars

\* Regex::Regex(pattern): compile the pattern into the regex's own automaton
DoCompile ==
    /\ pattern = NoPattern
    /\ \E p \in Patterns :
        /\ pattern' = p
        /\ calls' = compileCalls(p)
        /\ Set(compile(Cur, p))
    /\ optimized' = TRUE
    /\ UNCHANGED <<input, isAccepted, executors, nodes, removed>>

\* Regex::accept(input)
DoAccept ==
    /\ pattern # NoPattern
    /\ Running(Cur)
    /\ input = NoInput
    /\ \E in \in RegexInputs :
        /\ input' = in
        /\ isAccepted' = acceptString(Cur, in)
    /\ UNCHANGED <<kinds, nextStates, prevStates, allocatedStates, currentState,
                   groupStart, groupEnd, currentGroup, undefined, diverged,
                   error, optimized, calls, pattern, executors, nodes, removed>>

NextRegex ==
    \/ DoCompile
    \/ DoAccept

SpecRegex == Init /\ [][NextRegex]_vars

-----------------------------------------------------------------------------
(* The client that nests groups up to the capacity of the group stack *)

\* beginGroup inside the groups opened so far
DoNestGroup ==
    /\ Running(Cur)
    /\ Len(calls) < MaxNestCalls
    /\ \A i \in 1..Len(calls) : calls[i] = BeginGroup
    /\ Set(beginGroup(Cur))
    /\ calls' = Append(calls, BeginGroup)
    /\ UNCHANGED <<optimized, pattern, input, isAccepted, executors, nodes, removed>>

\* endGroup on the innermost open group
DoCloseGroup ==
    /\ Running(Cur)
    /\ calls # <<>>
    /\ currentGroup > 0
    /\ Set(endGroup(Cur))
    /\ calls' = Append(calls, EndGroup)
    /\ UNCHANGED <<optimized, pattern, input, isAccepted, executors, nodes, removed>>

NextNest ==
    \/ DoNestGroup
    \/ DoCloseGroup

SpecNest == Init /\ [][NextNest]_vars

-----------------------------------------------------------------------------
(* The client that nests macros: it opens groups, then macros inside them,   *)
(* puts an atom and a branch in the innermost one, and closes each macro     *)
(* with endMacro and each group with endGroup, innermost first.              *)

BeginMacro == [op |-> "beginMacro", kind |-> Epsilon]
EndMacro == [op |-> "endMacro", kind |-> Epsilon]

RECURSIVE openCalls(_, _)
\* the beginGroup and beginMacro calls among the first i calls of cs that no
\* endGroup or endMacro has closed, outermost first
openCalls(cs, i) ==
    IF i = 0 THEN <<>>
    ELSE LET open == openCalls(cs, i - 1)
         IN  IF cs[i] \in {BeginGroup, BeginMacro} THEN Append(open, cs[i])
             ELSE IF cs[i] \in {EndGroup, EndMacro} /\ open # <<>>
             THEN SubSeq(open, 1, Len(open) - 1)
             ELSE open

Opening(cs) == \A i \in 1..Len(cs) : cs[i] \in {BeginGroup, BeginMacro}

Nest(m, c) ==
    /\ Running(Cur)
    /\ Set(m)
    /\ calls' = Append(calls, c)
    /\ UNCHANGED <<optimized, pattern, input, isAccepted, executors, nodes, removed>>

DoOuterGroup ==
    /\ \A i \in 1..Len(calls) : calls[i] = BeginGroup
    /\ Len(calls) < MaxOuterGroups
    /\ Nest(beginGroup(Cur), BeginGroup)

DoBeginMacro ==
    /\ Opening(calls)
    /\ Cardinality({i \in 1..Len(calls) : calls[i] = BeginMacro}) < MaxMacros
    /\ Nest(beginMacro(Cur), BeginMacro)

DoMacroAtom ==
    /\ Opening(calls)
    /\ calls # <<>>
    /\ \E c \in Alphabet : Nest(pushState(Cur, Symbol(c)), PushState(Symbol(c)))

DoMacroBranch ==
    /\ calls # <<>>
    /\ calls[Len(calls)].op = "pushState"
    /\ Nest(pushBranch(Cur), PushBranch)

DoEndMacro ==
    /\ openCalls(calls, Len(calls)) # <<>>
    /\ openCalls(calls, Len(calls))[Len(openCalls(calls, Len(calls)))] = BeginMacro
    /\ Nest(endMacro(Cur), EndMacro)

DoEndOuterGroup ==
    /\ openCalls(calls, Len(calls)) # <<>>
    /\ openCalls(calls, Len(calls))[Len(openCalls(calls, Len(calls)))] = BeginGroup
    /\ Nest(endGroup(Cur), EndGroup)

NextMacro ==
    \/ DoOuterGroup
    \/ DoBeginMacro
    \/ DoMacroAtom
    \/ DoMacroBranch
    \/ DoEndMacro
    \/ DoEndOuterGroup

SpecMacro == Init /\ [][NextMacro]_vars

-----------------------------------------------------------------------------
(* The clients that match with their own executors on one compiled automaton *)

ExecPatterns == SeqsUpTo(PatternChars, MaxExecPatternLen)
ExecInputs == SeqsUpTo(Alphabet, MaxExecInputLen)

\* Regex::Regex(pattern), for the patterns matched with executors
DoCompileToExecute ==
    /\ pattern = NoPattern
    /\ \E p \in ExecPatterns :
        /\ pattern' = p
        /\ calls' = compileCalls(p)
        /\ Set(compile(Cur, p))
    /\ optimized' = TRUE
    /\ UNCHANGED <<input, isAccepted, executors, nodes, removed>>

\* the client i calls createExecutor(input)
DoCreateExecutor(i) ==
    /\ pattern # NoPattern
    /\ Running(Cur)
    /\ executors[i] = NoExecutor
    /\ \E in \in ExecInputs :
        executors' = [executors EXCEPT ![i] =
                        [ex |-> createExecutor(Cur, in), done |-> FALSE, isAccepted |-> FALSE]]
    /\ UNCHANGED <<kinds, nextStates, prevStates, allocatedStates, currentState,
                   groupStart, groupEnd, currentGroup, undefined, diverged,
                   error, optimized, calls, pattern, input, isAccepted,
                   nodes, removed>>

\* mutant of DoStep: the executors share one frontier and one cursor
DoStepShared(i) ==
    /\ executors[i].ex.cursor > 0
    /\ ~executors[i].done
    /\ LET r == step(Cur, executors[i].ex)
       IN  executors' = [j \in Executors |->
                IF j = i THEN [ex |-> r.ex, done |-> r.done, isAccepted |-> r.isAccepted]
                ELSE IF executors[j].ex.cursor > 0
                THEN [executors[j] EXCEPT !.ex.frontier = r.ex.frontier,
                                          !.ex.cursor = r.ex.cursor]
                ELSE executors[j]]
    /\ UNCHANGED <<kinds, nextStates, prevStates, allocatedStates, currentState,
                   groupStart, groupEnd, currentGroup, undefined, diverged,
                   error, optimized, calls, pattern, input, isAccepted,
                   nodes, removed>>

\* the client i calls step(isAccepted) on its executor, as the loop of
\* acceptString does, until step returns true
DoStep(i) ==
    /\ executors[i].ex.cursor > 0
    /\ ~executors[i].done
    /\ LET r == step(Cur, executors[i].ex)
       IN  executors' = [executors EXCEPT ![i] =
                [ex |-> r.ex, done |-> r.done, isAccepted |-> r.isAccepted]]
    /\ UNCHANGED <<kinds, nextStates, prevStates, allocatedStates, currentState,
                   groupStart, groupEnd, currentGroup, undefined, diverged,
                   error, optimized, calls, pattern, input, isAccepted,
                   nodes, removed>>

NextExec ==
    \/ DoCompileToExecute
    \/ \E i \in Executors : DoCreateExecutor(i)
    \/ \E i \in Executors : DoStep(i)

SpecExec == Init /\ [][NextExec]_vars

-----------------------------------------------------------------------------
(* Reference semantics of a graph: the inputs that spell a path from        *)
(* startState to acceptedState.  It is computed backwards from              *)
(* acceptedState, over nextStates alone.                                    *)

States(m) == 1..Len(m.kinds)

RECURSIVE backClosure(_, _)
backClosure(m, L) ==
    LET more == L \cup {u \in States(m) :
                        ~Consumes(m.kinds[u]) /\ Range(m.nextStates[u]) \cap L # {}}
    IN  IF more = L THEN L ELSE backClosure(m, more)

\* the states from which, arriving with w[j..] left to read, some path
\* consumes exactly w[j..] and ends on acceptedState
RECURSIVE live(_, _, _)
live(m, w, j) ==
    IF j > Len(w) THEN backClosure(m, {acceptedState})
    ELSE LET after == live(m, w, j + 1)
         IN  backClosure(m, {u \in States(m) :
                             /\ Consumes(m.kinds[u])
                             /\ Matches(m.kinds[u], w[j])
                             /\ Range(m.nextStates[u]) \cap after # {}})

CanConsume(m, w) == startState \in live(m, w, 1)

IsLiteral(p) == \A i \in 1..Len(p) : p[i] \in Alphabet
Literal(p) == [i \in 1..Len(p) |-> PushState(Symbol(p[i]))]
IsPrefix(p, w) == Len(p) <= Len(w) /\ \A i \in 1..Len(p) : w[i] = p[i]
IsSuffix(p, w) == Len(p) <= Len(w) /\ \A i \in 1..Len(p) : w[Len(w) - Len(p) + i] = p[i]

\* w is x^i y^j with i >= minX and j >= minY
Blocks(w, x, minX, y, minY) ==
    \E i \in 0..Len(w) :
        /\ i >= minX
        /\ Len(w) - i >= minY
        /\ \A k \in 1..Len(w) : w[k] = IF k <= i THEN x ELSE y

-----------------------------------------------------------------------------
(* Claims *)

\* C1: acceptString returns true exactly when the automaton can consume all
\* the symbols of the input, in order, and end on the accepted state; for a
\* literal automaton an input of which only a proper prefix or a proper
\* suffix matches is rejected.
C1_FullMatch ==
    (Built /\ input # NoInput) =>
        /\ isAccepted <=> CanConsume(Cur, input)
        /\ \A p \in Inputs :
              (calls = Literal(p) \o <<EndGroup>> /\ input # p
                  /\ (IsPrefix(p, input) \/ IsSuffix(p, input)))
              => ~isAccepted

C1_Witness ==
    /\ calls = Literal(<<"a", "b">>) \o <<EndGroup>>
    /\ input = <<"a", "b", "a">>
    /\ ~isAccepted
    /\ CanConsume(Cur, <<"a", "b">>)

\* C2: Regex.compile of a sequence S of literal symbols accepts S and
\* rejects every other input, the empty pattern included.
C2_LiteralIdentity ==
    (pattern # NoPattern /\ IsLiteral(pattern)) =>
        /\ ~undefined
        /\ input # NoInput => (isAccepted <=> input = pattern)

C2_Witness ==
    /\ pattern = <<"a", "b", "a">>
    /\ input = pattern
    /\ isAccepted

\* C3: pattern 'a+' accepts a^n for every n >= 1, and rejects the empty
\* input and every input that holds another symbol.
C3_OneOrMore ==
    \A c \in Alphabet :
        pattern = <<c, "+">> =>
            /\ ~undefined
            /\ input # NoInput =>
                  (isAccepted <=> (Len(input) >= 1 /\ \A i \in 1..Len(input) : input[i] = c))

C3_Witness ==
    /\ pattern = <<"a", "+">>
    /\ input = <<"a", "a", "a">>
    /\ isAccepted

\* C4: a quantifier right after pushState(S) scopes over S alone: pattern
\* 'a+b+' accepts exactly the inputs a^i b^j with i >= 1 and j >= 1.
C4_AtomScope ==
    pattern = <<"a", "+", "b", "+">> =>
        /\ ~undefined
        /\ input # NoInput => (isAccepted <=> Blocks(input, "a", 1, "b", 1))

C4_Witness ==
    /\ pattern = <<"a", "+", "b", "+">>
    /\ input = <<"a", "a", "b", "b">>
    /\ isAccepted

\* w is k >= 1 repetitions of u
RepeatsOf(w, u) ==
    /\ Len(w) >= Len(u)
    /\ Len(w) % Len(u) = 0
    /\ \A i \in 1..Len(w) : w[i] = u[((i - 1) % Len(u)) + 1]

RECURSIVE depthAfter(_, _)
\* the number of '(' not yet closed after the pattern p, or -1 when a ')'
\* closes nothing
depthAfter(p, i) ==
    IF i = 0 THEN 0
    ELSE LET d == depthAfter(p, i - 1)
         IN  IF d < 0 THEN d
             ELSE IF p[i] = "(" THEN d + 1
             ELSE IF p[i] = ")" THEN d - 1
             ELSE d

Balanced(p) == depthAfter(p, Len(p)) = 0

\* C5: the automaton that Regex.compile builds for '(ab)+' accepts exactly
\* the inputs (ab)^k with k >= 1.
C5_GroupPlus ==
    pattern = <<"(", "a", "b", ")", "+">> =>
        /\ ~undefined
        /\ input # NoInput => (isAccepted <=> RepeatsOf(input, <<"a", "b">>))

\* C6: Regex.compile calls endGroup on ')' and beginGroup on '(' only, so that
\* a balanced pattern leaves the group index where the closing endGroup of
\* compile finds the top-level group: at 0 when compile returns.
C6_CloseEndsGroup ==
    pattern # NoPattern =>
        /\ \A i \in 1..Len(pattern) :
              /\ pattern[i] = ")" => calls[i] = EndGroup
              /\ calls[i] = BeginGroup => pattern[i] = "("
        /\ (Balanced(pattern) /\ ~undefined) => currentGroup = 0

\* C7: '*' after an atom makes it match zero or more times: pattern 'a+b*'
\* accepts exactly the inputs a^i b^j with i >= 1 and j >= 0.
C7_ZeroOrMore ==
    pattern = <<"a", "+", "b", "*">> =>
        /\ ~undefined
        /\ input # NoInput => (isAccepted <=> Blocks(input, "a", 1, "b", 0))

-----------------------------------------------------------------------------
(* The structure of a sequence of builder calls *)

IsQuantifier(c) == c.op \in {"pushJump", "pushSkip"}

RECURSIVE openOf(_, _, _)
\* scanning cs backwards from i, `depth` endGroup calls not yet matched: the
\* index of the beginGroup that opens the innermost open group, 0 if none
openOf(cs, i, depth) ==
    IF i = 0 THEN 0
    ELSE IF cs[i] = EndGroup THEN openOf(cs, i - 1, depth + 1)
    ELSE IF cs[i] = BeginGroup
         THEN IF depth = 0 THEN i ELSE openOf(cs, i - 1, depth - 1)
    ELSE openOf(cs, i - 1, depth)

\* the index of the beginGroup matched by the endGroup at k, 0 if none
MatchOpen(cs, k) == openOf(cs, k - 1, 0)

\* the first call of the atom or group that ends right before index k, 0 if
\* no atom or group ends there
LastStart(cs, k) ==
    IF k <= 1 THEN 0
    ELSE IF cs[k - 1].op = "pushState" THEN k - 1
    ELSE IF cs[k - 1] = EndGroup THEN MatchOpen(cs, k - 1)
    ELSE 0

\* every quantifier follows an atom, a closed group or another quantifier
WellFormed(cs) ==
    \A i \in 1..Len(cs) :
        IsQuantifier(cs[i]) =>
            /\ i > 1
            /\ \/ cs[i - 1].op = "pushState"
               \/ IsQuantifier(cs[i - 1])
               \/ cs[i - 1] = EndGroup /\ MatchOpen(cs, i - 1) > 0

RECURSIVE altStart(_, _, _)
\* scanning cs backwards from i: the index of the call that opens the
\* alternative (a beginGroup or a pushBranch of the same group), 0 if none
altStart(cs, i, depth) ==
    IF i = 0 THEN 0
    ELSE IF cs[i] = EndGroup THEN altStart(cs, i - 1, depth + 1)
    ELSE IF cs[i] = BeginGroup
         THEN IF depth = 0 THEN i ELSE altStart(cs, i - 1, depth - 1)
    ELSE IF cs[i] = PushBranch /\ depth = 0 THEN i
    ELSE altStart(cs, i - 1, depth)

RECURSIVE altEnd(_, _, _)
\* scanning cs forwards from i: the index of the call that ends the
\* alternative (an endGroup or a pushBranch of the same group), Len(cs) + 1
\* if none
altEnd(cs, i, depth) ==
    IF i > Len(cs) THEN Len(cs) + 1
    ELSE IF cs[i] = BeginGroup THEN altEnd(cs, i + 1, depth + 1)
    ELSE IF cs[i] = EndGroup
         THEN IF depth = 0 THEN i ELSE altEnd(cs, i + 1, depth - 1)
    ELSE IF cs[i] = PushBranch /\ depth = 0 THEN i
    ELSE altEnd(cs, i + 1, depth)

\* cs with the alternatives on the two sides of the pushBranch at k exchanged
SwapBranch(cs, k) ==
    LET from == altStart(cs, k - 1, 0)
        to == altEnd(cs, k + 1, 0)
    IN  SubSeq(cs, 1, from) \o SubSeq(cs, k + 1, to - 1) \o <<PushBranch>>
            \o SubSeq(cs, from + 1, k - 1) \o SubSeq(cs, to, Len(cs))

\* the automaton a fresh builder makes of the calls cs
built(cs) == callAll(NewAutomaton, cs)

C9_BranchCommutes ==
    (Built /\ input # NoInput /\ WellFormed(calls)) =>
        \A k \in 1..Len(calls) :
            calls[k] = PushBranch =>
                LET swapped == built(SwapBranch(calls, k))
                    other == IF optimized THEN removeEpsilons(swapped) ELSE swapped
                IN  /\ ~swapped.undefined
                    /\ isAccepted <=> acceptString(other, input)

C9_Witness ==
    /\ calls = <<BeginGroup, PushState(Symbol("b")), PushBranch,
                 PushState(Symbol("a")), EndGroup, EndGroup>>
    /\ optimized
    /\ input = <<"a">>
    /\ isAccepted

\* C10: the calls of the documentation example of Automaton build (a|b)+ :
\* the automaton accepts 'abbabba' and rejects 'abbacba'.
DocCalls ==
    <<BeginGroup, PushState(Symbol("a")), PushBranch, PushState(Symbol("b")),
      EndGroup, EndGroup>>

C10_DocExample ==
    (calls = DocCalls /\ ~optimized) =>
        /\ ~undefined
        /\ input = DocAccepted => isAccepted
        /\ input = DocRejected => ~isAccepted

-----------------------------------------------------------------------------
(* Repetition *)

RECURSIVE Power(_, _)
\* k copies of the calls cs, one after the other
Power(cs, k) == IF k = 0 THEN <<>> ELSE cs \o Power(cs, k - 1)

\* the calls cs with the pushRepeat at r taken away and the atom or group it
\* repeats issued k times
RepeatedCalls(cs, r, k) ==
    LET x == LastStart(cs, r)
    IN  SubSeq(cs, 1, x - 1) \o Power(SubSeq(cs, x, r - 1), k)
            \o SubSeq(cs, r + 1, Len(cs))

\* the pushRepeat at r follows an atom or a closed group, and the builder was
\* running when it was issued
RepeatsLast(cs, r) ==
    /\ LastStart(cs, r) > 0
    /\ Running(built(SubSeq(cs, 1, r - 1)))

\* C11: pushRepeat(m, n) with 0 <= m <= n and n > 0 on the last atom or group
\* X returns, and the automaton accepts exactly the inputs it accepts with k
\* copies of X in the place of X, for some k in m..n.
C11_BoundedRepeat ==
    \A r \in RepeatCalls(calls) :
        (/\ calls[r].minRepeats <= calls[r].maxRepeats
         /\ calls[r].maxRepeats > 0
         /\ RepeatsLast(calls, r))
        => /\ Running(built(SubSeq(calls, 1, r)))
           /\ (Built /\ ~optimized /\ input # NoInput) =>
                 (isAccepted <=>
                    \E k \in calls[r].minRepeats..calls[r].maxRepeats :
                        acceptString(built(RepeatedCalls(calls, r, k)), input))

\* C12: pushRepeat(m, 0) with m >= 1 on the last atom or group X returns,
\* whatever the local prevState held, and the automaton accepts exactly the
\* inputs it accepts with k copies of X in the place of X, for some k >= m.
C12_OpenRepeat ==
    \A r \in RepeatCalls(calls) :
        (/\ calls[r].minRepeats >= 1
         /\ calls[r].maxRepeats = 0
         /\ RepeatsLast(calls, r))
        => /\ Running(built(SubSeq(calls, 1, r)))
           /\ (Built /\ ~optimized /\ input # NoInput) =>
                 (isAccepted <=>
                    \E k \in calls[r].minRepeats..(calls[r].minRepeats + Len(input)) :
                        acceptString(built(RepeatedCalls(calls, r, k)), input))

\* C13: acceptString gives the same verdict on the optimized automaton as on
\* the automaton the same builder calls make, not optimized.
C13_EpsilonRemoval ==
    (Built /\ optimized /\ input # NoInput) =>
        (isAccepted <=> acceptString(built(calls), input))

C13_Witness ==
    /\ calls = <<PushState(Symbol("a")), PushJump, PushState(Symbol("b")), EndGroup>>
    /\ optimized
    /\ nextStates # built(calls).nextStates
    /\ input = <<"a", "a", "b">>
    /\ isAccepted

\* the frontier after reading w[j..] from the frontier F
RECURSIVE frontierAfter(_, _, _, _)
frontierAfter(m, F, w, j) ==
    IF j > Len(w) THEN F
    ELSE frontierAfter(m,
            closure(m, UNION {Range(m.nextStates[u]) :
                              u \in {v \in F : Consumes(m.kinds[v])
                                                /\ Matches(m.kinds[v], w[j])}}),
            w, j + 1)

\* some path from the state start reads exactly w and ends with the state
\* end, the symbol that end consumes included
GroupAccepts(m, start, end, w) ==
    IF Consumes(m.kinds[end])
    THEN /\ Len(w) >= 1
         /\ end \in frontierAfter(m, closure(m, {start}), SubSeq(w, 1, Len(w) - 1), 1)
         /\ Matches(m.kinds[end], w[Len(w)])
    ELSE end \in frontierAfter(m, closure(m, {start}), w, 1)

\* the pushRepeat at r follows an atom, a closed group or a quantifier on one,
\* and the builder was running when it was issued
RepeatsGroup(cs, r) ==
    /\ r > 1
    /\ WellFormed(SubSeq(cs, 1, r - 1))
    /\ \/ cs[r - 1].op = "pushState"
       \/ IsQuantifier(cs[r - 1])
       \/ cs[r - 1] = EndGroup /\ MatchOpen(cs, r - 1) > 0
    /\ Running(built(SubSeq(cs, 1, r - 1)))

\* C14: cloneCurrentGroup, as pushRepeat calls it on the group (start, end) of
\* the current frame, returns having cloned start and end, and the inputs
\* read from the clone of start to the clone of end are the inputs read from
\* start to end.
C14_CloneFidelity ==
    (calls # <<>> /\ calls[Len(calls)].op = "pushRepeat"
        /\ calls[Len(calls)].minRepeats >= 2 /\ RepeatsGroup(calls, Len(calls)))
    => LET before == built(SubSeq(calls, 1, Len(calls) - 1))
           start == before.groupStart[before.currentGroup]
           end == before.groupEnd[before.currentGroup]
           entry == repeatEpsilon(createState(before, Epsilon))
           cloned == cloneCurrentGroupVisited(entry)
       IN  /\ Running(cloned.m)
           /\ {start, end} \subseteq DOMAIN cloned.visitedStates
           /\ \A w \in SeqsUpTo(Alphabet, MaxInputLen) :
                 GroupAccepts(entry, start, end, w)
                    <=> GroupAccepts(cloned.m, cloned.visitedStates[start],
                                     cloned.visitedStates[end], w)

\* C15: a pattern of n '.' tokens accepts exactly the inputs of n symbols
\* none of which is the zero symbol.
C15_AnySymbol ==
    (pattern # NoPattern /\ \A i \in 1..Len(pattern) : pattern[i] = ".") =>
        /\ Running(Cur)
        /\ input # NoInput =>
              (isAccepted <=> (/\ Len(input) = Len(pattern)
                               /\ \A i \in 1..Len(input) : input[i] # ZeroSymbol))

C15_Witness ==
    /\ pattern = <<".", ".">>
    /\ input = <<"6", "7">>
    /\ isAccepted
    /\ ~acceptString(Cur, <<"a", ZeroSymbol>>)
    /\ ~acceptString(Cur, <<"1">>)
    /\ ~acceptString(Cur, <<"1", "0", "6">>)

\* C16: the pattern of two digit classes accepts exactly the inputs of two
\* symbols that are both digits.
C16_DigitClass ==
    pattern = DigitsPattern =>
        /\ Running(Cur)
        /\ input # NoInput =>
              (isAccepted <=> (/\ Len(input) = 2
                               /\ \A i \in 1..Len(input) : input[i] \in Digits))

C18_UnbalancedRejected ==
    (pattern # NoPattern /\ ~Balanced(pattern)) =>
        /\ error = PatternSyntaxError
        /\ input = NoInput

\* C19: the beginGroup that finds the group index at maxNumGroups - 1, where
\* it cannot push its frame, fails with a capacity error.
C19_CapacityError ==
    (/\ Len(calls) >= maxNumGroups - 1
     /\ \A i \in 1..(maxNumGroups - 1) : calls[i] = BeginGroup)
    => error = BuilderCapacityError

\* C20: pushRepeat(min, max) with max > 0 and min > max on the last atom or
\* group is rejected as a PatternSyntaxError, and no input is matched against
\* the automaton.
C20_RepeatRejected ==
    \A r \in RepeatCalls(calls) :
        (/\ calls[r].maxRepeats > 0
         /\ calls[r].minRepeats > calls[r].maxRepeats
         /\ RepeatsLast(calls, r))
        => /\ error = PatternSyntaxError
           /\ input = NoInput

-----------------------------------------------------------------------------
(* The builder's frames *)

\* C21: on a builder that has just been constructed the current state is the
\* start state, frame 0 is (start, accepted), the group index is 1 and frame 1
\* equals frame 0; a quantifier issued as the first call finds both states of
\* its frame and returns.
C21_InitialFrames ==
    /\ calls = <<>> =>
        /\ currentState = startState
        /\ groupStart[0] = startState
        /\ groupEnd[0] = acceptedState
        /\ currentGroup = 1
        /\ groupStart[1] = groupStart[0]
        /\ groupEnd[1] = groupEnd[0]
    /\ (Len(calls) = 1 /\ calls[1] \in {PushSkip, PushJump}) => ~undefined

\* the end state created by the beginGroup at index b of cs; the start state
\* of that group is the state created right before it
EndOfGroup(cs, b) == lastState(built(SubSeq(cs, 1, b)))

C22_EndGroupStep ==
    (/\ Running(Cur)
     /\ calls' = Append(calls, EndGroup)
     /\ MatchOpen(calls', Len(calls')) > 0)
    => LET EG == EndOfGroup(calls, MatchOpen(calls', Len(calls')))
           SG == EG - 1
       IN  /\ ~undefined'
           /\ nextStates' = [nextStates EXCEPT ![currentState] = Append(@, EG)]
           /\ prevStates' = [prevStates EXCEPT ![EG] = Append(@, currentState)]
           /\ kinds' = kinds
           /\ currentState' = EG
           /\ currentGroup' = currentGroup - 1
           /\ groupStart'[currentGroup'] = SG
           /\ groupEnd'[currentGroup'] = EG

\* C22: every endGroup that closes a group opened by a beginGroup, whatever
\* pushState, pushBranch, pushJump, pushSkip and pushRepeat calls came in
\* between, adds the edge from the current state to the end state EG created
\* by that beginGroup and nothing else, makes EG the current state, decrements
\* the group index by one and leaves the frame at the new group index equal to
\* the group's (SG, EG).
C22_EndGroup == [][C22_EndGroupStep]_vars

\* a group that holds atoms, a branch or a quantifier and a repeated atom or
\* group has been closed by its endGroup
C22_Witness ==
    /\ Running(Cur)
    /\ Len(calls) >= 4
    /\ calls[Len(calls)] = EndGroup
    /\ MatchOpen(calls, Len(calls)) > 0
    /\ \E r \in RepeatCalls(calls) : r > MatchOpen(calls, Len(calls))
    /\ \E i \in 1..Len(calls) :
        /\ i > MatchOpen(calls, Len(calls))
        /\ calls[i].op \in {"pushBranch", "pushJump", "pushSkip"}

C23_PushStateStep ==
    (/\ Running(Cur)
     /\ calls' = Append(calls, calls'[Len(calls')])
     /\ calls'[Len(calls')].op = "pushState")
    => LET E == Len(kinds) + 1
           S == Len(kinds) + 2
           C == currentState
           g == currentGroup
       IN  /\ ~undefined'
           /\ kinds' = kinds \o <<Epsilon, calls'[Len(calls')].kind>>
           /\ allocatedStates' = allocatedStates \o <<E, S>>
           /\ nextStates' = [nextStates EXCEPT ![C] = Append(@, E)] \o <<<<S>>, <<>>>>
           /\ prevStates' = prevStates \o <<<<C>>, <<E>>>>
           /\ currentState' = S
           /\ currentGroup' = g
           /\ groupStart' = [groupStart EXCEPT ![g] = E]
           /\ groupEnd' = [groupEnd EXCEPT ![g] = S]

\* C23: pushState creates exactly two states, an epsilon E and the requested
\* state S, adds exactly the edges C -> E and E -> S (with their back-edges),
\* makes S the current state and (E, S) the frame at the group index, and
\* leaves the group index, every other frame and every edge that existed
\* unchanged.
C23_PushState == [][C23_PushStateStep]_vars

\* pushState has acted inside an open group, on a graph that holds edges and
\* frames of earlier calls
C23_Witness ==
    /\ Running(Cur)
    /\ Len(calls) >= 3
    /\ calls[Len(calls)].op = "pushState"
    /\ currentGroup >= 2
    /\ \E i \in 1..(Len(calls) - 1) : calls[i].op = "pushState"
    /\ groupEnd[currentGroup] = currentState
    /\ groupStart[currentGroup] = currentState - 1

C24_PushBranchStep ==
    (/\ Running(Cur)
     /\ calls' = Append(calls, PushBranch)
     /\ currentGroup >= 1)
    => LET C == currentState
           g == currentGroup
           b == openOf(calls, Len(calls), 0)
       IN  /\ ~undefined'
           /\ kinds' = kinds
           /\ allocatedStates' = allocatedStates
           /\ nextStates' = [nextStates EXCEPT ![C] = Append(@, groupEnd[g - 1])]
           /\ prevStates' = [prevStates EXCEPT ![groupEnd[g - 1]] = Append(@, C)]
           /\ currentState' = groupStart[g - 1]
           /\ currentGroup' = g
           /\ groupStart' = groupStart
           /\ groupEnd' = groupEnd
           /\ b > 0 =>
                /\ groupEnd[g - 1] = EndOfGroup(calls, b)
                /\ groupStart[g - 1] = EndOfGroup(calls, b) - 1
           /\ (\A i \in 1..Len(calls) : calls[i] \notin {BeginGroup, EndGroup}) =>
                /\ groupEnd[g - 1] = acceptedState
                /\ groupStart[g - 1] = startState

\* C24: pushBranch in a group (the group index is at least 1, so that the
\* frame below it exists) adds exactly one edge, from the current state to the
\* end of the frame below the group index, creates no state, then makes the
\* start of that frame the current state, and leaves the group index and every
\* frame unchanged; that frame is the one of the innermost open group, so
\* every alternative starts at the group's start state and joins at its end
\* state.
C24_PushBranch == [][C24_PushBranchStep]_vars

\* pushBranch has ended an alternative that holds an atom, inside a group
\* opened by beginGroup
C24_Witness ==
    /\ Running(Cur)
    /\ Len(calls) >= 3
    /\ calls[Len(calls)] = PushBranch
    /\ calls[Len(calls) - 1].op = "pushState"
    /\ openOf(calls, Len(calls), 0) > 0
    /\ currentGroup >= 2
    /\ currentState = groupStart[currentGroup - 1]

C25_PushJumpStep ==
    (/\ Running(Cur)
     /\ calls' = Append(calls, PushJump)
     /\ groupStart[currentGroup] # NULL
     /\ groupEnd[currentGroup] # NULL)
    => LET SG == groupStart[currentGroup]
           EG == groupEnd[currentGroup]
       IN  /\ ~undefined'
           /\ nextStates' = [nextStates EXCEPT ![EG] = Append(@, SG)]
           /\ prevStates' = [prevStates EXCEPT ![SG] = Append(@, EG)]
           /\ UNCHANGED <<kinds, allocatedStates, currentState, currentGroup,
                          groupStart, groupEnd>>

\* C25: pushJump, called when the frame at the group index holds the states of
\* a last atom or group, adds exactly one edge, from the end of that frame to
\* its start, and changes nothing else: the current state, the group index,
\* every frame and the set of states are the same before and after the call.
C25_PushJump == [][C25_PushJumpStep]_vars

\* pushJump has acted on the frame of a closed group that holds an atom
C25_Witness ==
    /\ Running(Cur)
    /\ Len(calls) >= 4
    /\ calls[Len(calls)] = PushJump
    /\ calls[Len(calls) - 1] = EndGroup
    /\ MatchOpen(calls, Len(calls) - 1) > 0
    /\ groupStart[currentGroup] # NULL
    /\ \E i \in 1..Len(nextStates[groupEnd[currentGroup]]) :
        nextStates[groupEnd[currentGroup]][i] = groupStart[currentGroup]

-----------------------------------------------------------------------------
(* The clone of a group *)

RECURSIVE reach(_, _, _)
\* the states reached from the states of S, S included, along edges that do
\* not leave a state of `stop`
reach(m, stop, S) ==
    LET more == S \cup UNION {Range(m.nextStates[u]) : u \in S \ stop}
    IN  IF more = S THEN S ELSE reach(m, stop, more)

\* the states inside the group (start, end): reached from start without
\* leaving through end
Inside(m, start, end) == reach(m, {end}, {start})

\* the states that come after the group's end: reached from end along one or
\* more edges, and from which end is not reached again
After(m, end) ==
    {s \in reach(m, {}, Range(m.nextStates[end])) : end \notin reach(m, {}, {s})}

\* C26: cloneCurrentGroup, as pushRepeat calls it on the group (start, end) of
\* the current frame, creates only clones of states inside the group, one
\* clone for each state it visits, and clones no state that comes after the
\* group's end.
C26_CloneInsideGroup ==
    (calls # <<>> /\ calls[Len(calls)].op = "pushRepeat"
        /\ calls[Len(calls)].minRepeats >= 2 /\ RepeatsGroup(calls, Len(calls)))
    => LET before == built(SubSeq(calls, 1, Len(calls) - 1))
           start == before.groupStart[before.currentGroup]
           end == before.groupEnd[before.currentGroup]
           entry == repeatEpsilon(createState(before, Epsilon))
           cloned == cloneCurrentGroupVisited(entry)
           visited == cloned.visitedStates
           created == (Len(entry.kinds) + 1)..Len(cloned.m.kinds)
       IN  /\ DOMAIN visited \subseteq Inside(entry, start, end)
           /\ {visited[s] : s \in DOMAIN visited} = created
           /\ Cardinality(DOMAIN visited) = Cardinality(created)
           /\ DOMAIN visited \cap After(entry, end) = {}

-----------------------------------------------------------------------------
(* The loop of acceptString *)

RECURSIVE stepCursors(_, _, _)
\* the cursor after each call of step that the loop of acceptString makes on
\* the executor ex, the call that returns the verdict included; the loop is
\* followed for n calls after the first
stepCursors(m, ex, n) ==
    LET r == step(m, ex)
    IN  IF r.done \/ n = 0 THEN <<r.ex.cursor>>
        ELSE <<r.ex.cursor>> \o stepCursors(m, r.ex, n - 1)

\* some epsilon state that the executor reaches at the start lies on a cycle
\* of epsilon states
HasEpsilonCycle(m) ==
    \E s \in closure(m, {startState}) :
        /\ ~Consumes(m.kinds[s])
        /\ s \in closure(m, Range(m.nextStates[s]))

-----------------------------------------------------------------------------
(* The lifetime of the states *)

\* C28: the start and accepted states are epsilon states from the construction
\* of the automaton on and are never listed among the states the optimizer
\* walks; after removeEpsilons no state has been removed, and neither of the
\* two has been merged away: the start state keeps outgoing transitions and
\* the accepted state incoming ones, if it had some before.
C28_StartAcceptKept ==
    /\ kinds[startState] = Epsilon
    /\ kinds[acceptedState] = Epsilon
    /\ {startState, acceptedState} \cap Range(allocatedStates) = {}
    /\ (optimized /\ pattern = NoPattern) =>
        LET before == built(calls)
        IN  /\ kinds = before.kinds
            /\ before.nextStates[startState] # <<>> => nextStates[startState] # <<>>
            /\ before.prevStates[acceptedState] # <<>> => prevStates[acceptedState] # <<>>

\* removeEpsilons has merged an epsilon state next to the start state and one
\* next to the accepted state, and the automaton accepts an input
C28_Witness ==
    /\ optimized
    /\ pattern = NoPattern
    /\ nextStates[startState] # built(calls).nextStates[startState]
    /\ prevStates[acceptedState] # built(calls).prevStates[acceptedState]
    /\ input # NoInput
    /\ Len(input) >= 1
    /\ isAccepted

-----------------------------------------------------------------------------
(* The transitions and their back-edges *)

\* the number of times x occurs in seq
Count(seq, x) == Cardinality({i \in 1..Len(seq) : seq[i] = x})

C30_DestroyedOnce ==
    (Running(Cur) /\ input = NoInput) =>
        /\ Range(destroyedStates(Cur)) = States(Cur)
        /\ Len(destroyedStates(Cur)) = Cardinality(States(Cur))
        /\ {startState, acceptedState} \cap Range(allocatedStates) = {}
        /\ (optimized /\ pattern = NoPattern) =>
                allocatedStates = built(calls).allocatedStates

\* removeEpsilons has merged away (unlinked) an allocated state of an
\* automaton that holds the clones of a pushRepeat
C30_Witness ==
    /\ Running(Cur)
    /\ input = NoInput
    /\ optimized
    /\ \E r \in RepeatCalls(calls) : calls[r].minRepeats >= 2
    /\ \E s \in Range(allocatedStates) :
        /\ nextStates[s] = <<>>
        /\ prevStates[s] = <<>>
        /\ built(calls).prevStates[s] # <<>>
        /\ built(calls).nextStates[s] # <<>>

-----------------------------------------------------------------------------
(* The termination of the clone *)

\* C31: pushRepeat with minRepeats >= 2 or maxRepeats > minRepeats, issued on
\* a last atom or group (a pushSkip or pushJump on it included), returns: the
\* loop of cloneCurrentGroup ends after creating finitely many states.
C31_CloneTerminates ==
    \A r \in RepeatCalls(calls) :
        (/\ RepeatsGroup(calls, r)
         /\ \/ calls[r].minRepeats >= 2
            \/ calls[r].maxRepeats > calls[r].minRepeats)
        => ~diverged

\* C32: when cloneCurrentGroup, as pushRepeat calls it on the group
\* (start, end) of the current frame, returns, the current state of the
\* builder is the clone of end, whatever the body of the group holds (a jump,
\* a skip, a branch).
C32_CloneEndsOnEnd ==
    (calls # <<>> /\ calls[Len(calls)].op = "pushRepeat"
        /\ calls[Len(calls)].minRepeats >= 2 /\ RepeatsGroup(calls, Len(calls)))
    => LET before == built(SubSeq(calls, 1, Len(calls) - 1))
           end == before.groupEnd[before.currentGroup]
           entry == repeatEpsilon(createState(before, Epsilon))
           cloned == cloneCurrentGroupVisited(entry)
       IN  Running(cloned.m) =>
                /\ end \in DOMAIN cloned.visitedStates
                /\ cloned.m.currentState = cloned.visitedStates[end]

-----------------------------------------------------------------------------
(* The bounds of the group stack *)

\* C33: whatever groups and macros a client nests and closes in order, with
\* an atom and a branch inside, the group index stays within
\* 0..maxNumGroups - 1 and no call reads or writes groupStart or groupEnd
\* outside the arrays.
C33_GroupIndexInRange ==
    /\ currentGroup \in 0..(maxNumGroups - 1)
    /\ ~undefined

-----------------------------------------------------------------------------
(* A client of BinaryNode: one tree, inserted at its root *)

TreeValues == 1..MaxValue

\* the nodes linked into the tree: the first node, and every node that has a
\* parent or a child (insert-only states: a node insertUnique has turned
\* down has neither)
Members(ns) ==
    {n \in DOMAIN ns :
        n = 1 \/ ns[n].parent # NULL \/ ns[n].left # NULL \/ ns[n].right # NULL}

\* the number of children of the node n
Children(ns, n) ==
    Cardinality({f \in {"left", "right"} : ns[n][f] # NULL})

\* the heap of the model after a call
SetHeap(t) ==
    /\ nodes' = t.nodes
    /\ undefined' = t.undefined
    /\ diverged' = t.diverged
    /\ UNCHANGED <<kinds, nextStates, prevStates, allocatedStates,
                   currentState, groupStart, groupEnd, currentGroup, error,
                   optimized, calls, pattern, input, isAccepted, executors>>

TreeRunning == ~undefined /\ ~diverged /\ removed = NoRemoval

\* the client constructs the first node of a tree, which is its root: a node
\* without parent, repaired as an inserted node is (Case 0 of repairInserted
\* makes it black)
DoNewTree ==
    /\ nodes = <<>>
    /\ TreeRunning
    /\ \E v \in TreeValues :
        SetHeap(repairInserted(Heap(<<BinaryNode(v)>>), 1))
    /\ UNCHANGED removed

\* the client constructs a node and calls insert on the root of the tree
DoInsert ==
    /\ nodes # <<>>
    /\ TreeRunning
    /\ Len(nodes) < MaxNodes
    /\ \E v \in TreeValues :
        LET t == Heap(Append(nodes, BinaryNode(v)))
        IN  SetHeap(insert(t, getRoot(t, 1), Len(t.nodes)))
    /\ UNCHANGED removed

\* the client constructs a node and calls insertUnique on the root of the tree
DoInsertUnique ==
    /\ nodes # <<>>
    /\ TreeRunning
    /\ Len(nodes) < MaxNodes
    /\ \E v \in TreeValues :
        LET t == Heap(Append(nodes, BinaryNode(v)))
        IN  SetHeap(insertUnique(t, getRoot(t, 1), Len(t.nodes)))
    /\ UNCHANGED removed

\* the client calls remove on a node of the tree
DoRemove ==
    /\ nodes # <<>>
    /\ TreeRunning
    /\ \E this \in Members(nodes) :
        LET t == remove(Heap(nodes), this)
        IN  /\ SetHeap(t)
            /\ removed' = [this |-> this, u |-> t.ret,
                            tree |-> Members(nodes),
                            children |-> Children(nodes, this)]

NextTree ==
    \/ DoNewTree
    \/ DoInsert
    \/ DoInsertUnique
    \/ DoRemove

SpecTree == Init /\ [][NextTree]_vars

-----------------------------------------------------------------------------
(* Claims: the red-black tree *)

\* the nodes of S reached from n through at most k parent pointers end on a
\* node without parent
RECURSIVE Climbs(_, _, _, _)
Climbs(ns, S, n, k) ==
    \/ ns[n].parent = NULL
    \/ k > 0 /\ ns[n].parent \in S /\ Climbs(ns, S, ns[n].parent, k - 1)

\* the parent and child pointers of the nodes of S agree and stay in S, one
\* node is the root and every node hangs under it
Linked(ns, S) ==
    /\ \A n \in S :
        /\ ns[n].left # NULL =>
              ns[n].left \in S \ {n} /\ ns[ns[n].left].parent = n
        /\ ns[n].right # NULL =>
              ns[n].right \in S \ {n} /\ ns[ns[n].right].parent = n
        /\ ns[n].left # NULL => ns[n].left # ns[n].right
        /\ ns[n].parent # NULL =>
              /\ ns[n].parent \in S \ {n}
              /\ n \in {ns[ns[n].parent].left, ns[ns[n].parent].right}
        /\ Climbs(ns, S, n, Cardinality(S))
    /\ S # {} => Cardinality({n \in S : ns[n].parent = NULL}) = 1

\* the root of the linked nodes S
RootOf(ns, S) == CHOOSE n \in S : ns[n].parent = NULL

\* the nodes under n and n itself, in order
RECURSIVE InOrder(_, _)
InOrder(ns, n) ==
    IF n = NULL THEN <<>>
    ELSE InOrder(ns, ns[n].left) \o <<n>> \o InOrder(ns, ns[n].right)

\* no node of the left subtree of a node holds a greater value, none of its
\* right subtree a smaller one
SearchTree(ns, S) ==
    \A n \in S :
        /\ \A m \in Range(InOrder(ns, ns[n].left)) :
              Compare(ns[m].data, ns[n].data) <= 0
        /\ \A m \in Range(InOrder(ns, ns[n].right)) :
              Compare(ns[m].data, ns[n].data) >= 0

\* next leads from the minimum through the nodes of S in order, and prev is
\* its inverse
Threaded(ns, S) ==
    S # {} =>
        LET io == InOrder(ns, RootOf(ns, S))
        IN  /\ Range(io) = S
            /\ Len(io) = Cardinality(S)
            /\ \A i \in 1..Len(io) :
                /\ ns[io[i]].next = IF i < Len(io) THEN io[i + 1] ELSE NULL
                /\ ns[io[i]].prev = IF i > 1 THEN io[i - 1] ELSE NULL
                /\ i < Len(io) =>
                      Compare(ns[io[i]].data, ns[io[i + 1]].data) <= 0

ValidTree(ns, S) ==
    /\ Linked(ns, S)
    /\ SearchTree(ns, S)
    /\ Threaded(ns, S)

Holding(ns, S, v) == Cardinality({n \in S : ns[n].data = v})

\* the call of remove() has returned a node of the tree that holds the value
\* of the node it was called on, and the other nodes are a valid tree
Evicted ==
    /\ ~undefined
    /\ ~diverged
    /\ removed.u \in removed.tree
    /\ nodes[removed.u].data = nodes[removed.this].data
    /\ \A v \in TreeValues :
          Holding(nodes, removed.tree \ {removed.u}, v) =
              Holding(nodes, removed.tree, v) -
                  (IF v = nodes[removed.this].data THEN 1 ELSE 0)
    /\ ValidTree(nodes, removed.tree \ {removed.u})

\* C35: remove() called on a node of a valid tree, whether the node has no
\* child, one child or two children, evicts exactly one node and returns it;
\* the remaining nodes form a binary search tree that holds exactly the other
\* values, their parent and child pointers agree, and the prev/next list is
\* their in-order sequence.
C35_RemoveKeepsTree == removed # NoRemoval => Evicted

====
